---- MODULE Spec2Model ----
(***************************************************************************)
(* Model of src/src/macos.rs: the macOS backend of the cross-process       *)
(* memory access layer (task_for_pid, put_address, copy_address).          *)
(*                                                                         *)
(* The three functions are thin wrappers around Mach kernel calls.  Each   *)
(* wrapper is modelled by the operators that compute what it passes to the *)
(* kernel (CopySize, PutCount) and what it returns from the kernel's       *)
(* answer (TaskForPidResult, PutResult, CopyResult).  The kernel and the   *)
(* target processes are the environment: target memory, the task port      *)
(* names, process exit, and the thread-local errno that last_os_error()    *)
(* reads.                                                                  *)
(***************************************************************************)
EXTENDS Integers, Sequences, FiniteSets, TLC

VARIABLES
    alive,   \* alive[p]: process p exists
    mem,     \* mem[p][a]: the byte at address a of process p (low cells)
    errno,   \* errno[t]: thread t's errno, what last_os_error() reads
    held,    \* the handles the callers obtained from successful resolutions
    th       \* th[t]: the call thread t is in (arguments, locals, result)

vars == <<alive, mem, errno, held, th>>

----------------------------------------------------------------------------
(* Bounds of the model *)

NThreads == 2
MaxPid == 1
MaxAddr == 0
MaxLen == 2
MaxByte == 1
MaxCode == 1
\* The width of mach_msg_type_number_t (u32), scaled down: the data_count
\* of mach_vm_write is taken modulo 2^CountBits.  vm_size_t and usize (u64)
\* are twice as wide.
CountBits == 2

(* Program constants *)

KERN_SUCCESS == 0
MACH_PORT_NULL == 0

SizeBits == 2 * CountBits

Threads == 1 .. NThreads
Pids == 1 .. MaxPid
Bytes == 0 .. MaxByte
\* kern_return_t failure codes and errno values
KernFailures == 1 .. MaxCode
Errnos == 0 .. MaxCode

Min(a, b) == IF a < b THEN a ELSE b
Max(a, b) == IF a > b THEN a ELSE b

----------------------------------------------------------------------------
(* Byte buffers (&[u8], &mut [u8]) are sequences of bytes.  A caller passes *)
(* short buffers (up to MaxLen bytes, any contents) and buffers whose       *)
(* length does not fit data_count (2^CountBits bytes and a little more,     *)
(* uniform).                                                                *)

SmallLens == 0 .. MaxLen
BigLens == { 2 ^ CountBits + k : k \in 0 .. MaxLen - 1 }

UniformBuf(n, byte) == [i \in 1 .. n |-> byte]

\* the source buffers a caller passes to put_address
SrcBufs ==
    UNION { [1 .. n -> Bytes] : n \in SmallLens }
        \cup { UniformBuf(n, MaxByte) : n \in BigLens }

\* the destination buffers a caller passes to copy_address (stale contents)
DstBufs == { UniformBuf(n, MaxByte) : n \in SmallLens \cup BigLens }

----------------------------------------------------------------------------
(* std::io::Result values *)

Ret(kind, code, expected, got, handle) ==
    [kind |-> kind, code |-> code, expected |-> expected, got |-> got,
     handle |-> handle]

NoRet == Ret("none", 0, 0, 0, 0)
OkUnit == Ret("Ok", 0, 0, 0, 0)
OkHandle(task) == Ret("Ok", 0, 0, 0, task)
\* std::io::Error::last_os_error(): the error built from the thread's errno
OsError(code) == Ret("Os", code, 0, 0, 0)
\* std::io::Error::new(ErrorKind::BrokenPipe, "... (expected {}, got {})")
BrokenPipe(expected, got) == Ret("BrokenPipe", 0, expected, got, 0)

----------------------------------------------------------------------------
(* The wrappers: what they pass to the kernel, what they return *)

\* task_for_pid: `if result != KERN_SUCCESS { Err(last_os_error()) } Ok(task)`
\* (variant: the status check left out)
TaskForPidResult_Unchecked(result, task, e) == OkHandle(task)

TaskForPidResult(result, task, e) ==
    IF result # KERN_SUCCESS THEN OsError(e) ELSE OkHandle(task)

\* put_address: `Len(buf)() as _` where the parameter is mach_msg_type_number_t
PutCount(buf) == Len(buf) % (2 ^ CountBits)

\* put_address: `if result != KERN_SUCCESS { Err(last_os_error()) } Ok(())`
\* (variant: the count given to the kernel compared with the buffer length)
PutResult_CheckCount(result, count, buf, e) ==
    IF result # KERN_SUCCESS THEN OsError(e)
    ELSE IF count = Len(buf) THEN OkUnit ELSE BrokenPipe(Len(buf), count)

PutResult(result, count, buf, e) ==
    IF result # KERN_SUCCESS THEN OsError(e) ELSE OkUnit

\* copy_address: `Len(buf)() as _` where the parameter is vm_size_t (u64)
\* (variant: the size narrowed like put_address's data_count)
CopySize_Narrow(buf) == Len(buf) % (2 ^ CountBits)

CopySize(buf) == Len(buf) % (2 ^ SizeBits)

\* copy_address: the status check, then `read_len == Len(buf)() as _`
\* (variant: a short read accepted)
CopyResult_AtMost(result, read_len, buf, e) ==
    IF result # KERN_SUCCESS THEN OsError(e)
    ELSE IF read_len <= Len(buf) % (2 ^ SizeBits) THEN OkUnit
    ELSE BrokenPipe(Len(buf), read_len)

\* (variant: an empty buffer returns Ok whatever the kernel answered)
CopyResult_EmptyOk(result, read_len, buf, e) ==
    IF Len(buf) = 0 THEN OkUnit
    ELSE IF result # KERN_SUCCESS THEN OsError(e)
    ELSE IF read_len = Len(buf) % (2 ^ SizeBits) THEN OkUnit
    ELSE BrokenPipe(Len(buf), read_len)

CopyResult(result, read_len, buf, e) ==
    IF result # KERN_SUCCESS THEN OsError(e)
    ELSE IF read_len = Len(buf) % (2 ^ SizeBits) THEN OkUnit
    ELSE BrokenPipe(Len(buf), read_len)

----------------------------------------------------------------------------
(* The kernel and the target processes *)

\* the port name the kernel gives the caller for process p's task
TaskPortName(p) == MaxPid + p

ValidTask(h) == \E p \in Pids : alive[p] /\ TaskPortName(p) = h

PidOf(h) == CHOOSE p \in Pids : TaskPortName(p) = h

\* Address space layout of the targets: [0, RTop) is mapped, nothing from
\* RTop on.  In a process with an odd pid [0, WTop) is read-write, large
\* enough for the longest buffer, and the last mapped byte is read-only; a
\* process with an even pid is mapped read-only throughout.
WTop == 2 ^ CountBits + MaxAddr + MaxLen

WritableTop(p) == IF p % 2 = 1 THEN WTop ELSE 0

RTop == WTop + 1

NumCells == RTop

\* the addresses a caller passes: low ones, the last mapped byte, the first
\* unmapped one
Addrs == (0 .. MaxAddr) \cup {RTop - 1, RTop}

\* a pid that names no process
NoSuchPid == MaxPid + 1

ZeroMem == [a \in 0 .. NumCells - 1 |-> 0]

\* buf with its first n bytes replaced by the target's bytes at address
ReadInto(p, address, buf, n) ==
    [i \in 1 .. Len(buf) |->
        IF i <= n THEN mem[p][address + i - 1] ELSE buf[i]]

\* mach::traps::task_for_pid(mach_task_self(), pid, &mut task): the kernel
\* grants the task port of a live process, or refuses and leaves task alone
KernTaskForPid(pid, task) ==
    { [result |-> k, task |-> task] : k \in KernFailures }
        \cup (IF pid \in Pids /\ alive[pid]
              THEN { [result |-> KERN_SUCCESS, task |-> TaskPortName(pid)] }
              ELSE {})

\* vm_read_overwrite(target_task, address, size, data, &mut outsize):
\* a readable range is copied whole and outsize = size; otherwise the call
\* fails, or succeeds reporting an outsize other than size
KernRead(task, address, size, buf, outsize) ==
    IF ~ValidTask(task)
    THEN { [result |-> k, outsize |-> outsize, buf |-> buf] : k \in KernFailures }
    ELSE LET p == PidOf(task)
             n == Max(0, Min(size, RTop - address))
         IN  IF n = size
             THEN { [result |-> KERN_SUCCESS, outsize |-> size,
                     buf |-> ReadInto(p, address, buf, Min(size, Len(buf)))] }
             ELSE { [result |-> k, outsize |-> outsize, buf |-> buf] :
                        k \in KernFailures }
                  \cup { [result |-> KERN_SUCCESS, outsize |-> m,
                          buf |-> ReadInto(p, address, buf, n)] :
                            m \in {n, size + 1} }

\* mach_vm_write(target_task, address, data, data_count): a writable range
\* receives the first data_count bytes of data; otherwise the call fails
KernWrite(task, address, buf, count) ==
    IF ValidTask(task) /\ address + count <= WritableTop(PidOf(task))
    THEN { [result |-> KERN_SUCCESS,
            mem |-> [mem EXCEPT ![PidOf(task)] =
                        [a \in 0 .. NumCells - 1 |->
                            IF address <= a /\ a < address + count
                            THEN buf[a - address + 1] ELSE @[a]]]] }
    ELSE { [result |-> k, mem |-> mem] : k \in KernFailures }

----------------------------------------------------------------------------
(* The calling threads *)

\* A thread outside any call.  In a call: op and its arguments (pid; self,
\* addr, arg = the buffer as passed), the locals (count = the length given
\* to the kernel, result, task, read_len, buf = the buffer now) and ret, the
\* value returned.  The other fields are history.  valid, inrange and want
\* record the target at the moment of the kernel call: the handle named a
\* live task, the whole range [addr, addr + len) was readable (copy) or
\* writable (put), and the bytes the target held there.  clean: nothing
\* has touched the target since this put_address wrote it.  rtrip: this
\* copy_address follows at once a put_address of this thread to a writable
\* range, same handle, same address, same length, the target untouched in
\* between; wrote and putok are that put_address's buffer and whether it
\* returned Ok.
Idle ==
    [pc |-> "idle", op |-> "none", pid |-> 0, self |-> MACH_PORT_NULL,
     addr |-> 0, arg |-> <<>>, buf |-> <<>>, count |-> 0,
     result |-> KERN_SUCCESS, task |-> MACH_PORT_NULL, read_len |-> 0,
     ret |-> NoRet, valid |-> FALSE, inrange |-> FALSE, want |-> <<>>,
     clean |-> FALSE, rtrip |-> FALSE, wrote |-> <<>>, putok |-> FALSE]

Init ==
    /\ alive = [p \in Pids |-> TRUE]
    /\ mem = [p \in Pids |-> ZeroMem]
    /\ errno = [t \in Threads |-> 0]
    /\ held = {}
    /\ th = [t \in Threads |-> Idle]

\* the history of the other threads' calls when a target is written or
\* exits: their put_address to that target is no longer the last to touch it
Disturbed(c, task, result) ==
    IF c.self = task /\ result = KERN_SUCCESS
    THEN [c EXCEPT !.clean = FALSE] ELSE c

\* task_for_pid, when the kernel call has returned o (lines 54-58)
ResolveCalled(pid, o) ==
    [Idle EXCEPT !.pc = "called", !.op = "resolve", !.pid = pid,
                 !.result = o.result, !.task = o.task,
                 !.valid = (pid \in Pids /\ alive[pid])]

\* task_for_pid, from the status check to the return (lines 59-64)
ResolveReturned(c, e) ==
    [c EXCEPT !.pc = "done", !.ret = TaskForPidResult(c.result, c.task, e)]

\* put_address, when mach_vm_write has returned o (line 93)
PutCalled(self, addr, buf, o) ==
    LET writable == ValidTask(self)
                      /\ addr + Len(buf) <= WritableTop(PidOf(self))
    IN  [Idle EXCEPT !.pc = "called", !.op = "put", !.self = self,
                     !.addr = addr, !.arg = buf, !.buf = buf,
                     !.count = PutCount(buf), !.result = o.result,
                     !.valid = ValidTask(self), !.inrange = writable,
                     !.clean = writable]

\* put_address, from the status check to the return (lines 94-97)
PutReturned(c, e) ==
    [c EXCEPT !.pc = "done", !.ret = PutResult(c.result, c.count, c.arg, e)]

\* the thread's put_address has returned and this copy_address comes next,
\* at the same address with a buffer of the same length
FollowsPut(t, self, addr, buf) ==
    /\ th[t].pc = "done" /\ th[t].op = "put"
    /\ th[t].self = self /\ th[t].addr = addr /\ Len(th[t].arg) = Len(buf)
    /\ th[t].inrange /\ th[t].clean

\* copy_address, when vm_read_overwrite has returned o (lines 107-116)
CopyCalled(t, self, addr, buf, o) ==
    LET readable == ValidTask(self) /\ addr + Len(buf) <= RTop
        follows == FollowsPut(t, self, addr, buf)
    IN  [Idle EXCEPT !.pc = "called", !.op = "copy", !.self = self,
                     !.addr = addr, !.arg = buf, !.buf = o.buf,
                     !.count = CopySize(buf), !.result = o.result,
                     !.read_len = o.outsize,
                     !.valid = ValidTask(self), !.inrange = readable,
                     !.want = IF readable
                              THEN ReadInto(PidOf(self), addr, buf, Len(buf))
                              ELSE <<>>,
                     !.rtrip = follows,
                     !.wrote = IF follows THEN th[t].arg ELSE <<>>,
                     !.putok = (follows /\ th[t].ret.kind = "Ok")]

\* copy_address, from the status check to the return (lines 118-133)
CopyReturned(c, e) ==
    [c EXCEPT !.pc = "done",
              !.ret = CopyResult(c.result, c.read_len, c.arg, e)]

\* the kernel calls the wrappers make, with the arguments they pass
TaskForPidOutcomes(pid) == KernTaskForPid(pid, MACH_PORT_NULL)

WriteOutcomes(self, addr, buf) ==
    KernWrite(self, addr % (2 ^ SizeBits), buf, PutCount(buf))

ReadOutcomes(self, addr, buf) ==
    KernRead(self, addr % (2 ^ SizeBits), CopySize(buf), buf, 0)

----------------------------------------------------------------------------
(* The operations, each a whole call *)

\* Pid::try_into_process_handle, that is task_for_pid
Resolve(t, pid) ==
    /\ th[t].pc = "idle"
    /\ \E o \in TaskForPidOutcomes(pid) :
        th' = [th EXCEPT ![t] = ResolveReturned(ResolveCalled(pid, o), errno[t])]
    /\ UNCHANGED <<alive, mem, errno, held>>

\* ProcessHandle::put_address
Put(t, self, addr, buf) ==
    /\ th[t].pc = "idle"
    /\ \E o \in WriteOutcomes(self, addr, buf) :
        /\ th' = [u \in Threads |->
                    IF u = t
                    THEN PutReturned(PutCalled(self, addr, buf, o), errno[t])
                    ELSE Disturbed(th[u], self, o.result)]
        /\ mem' = o.mem
    /\ UNCHANGED <<alive, errno, held>>

\* ProcessHandle::copy_address
Copy(t, self, addr, buf) ==
    /\ th[t].pc = "idle" \/ FollowsPut(t, self, addr, buf)
    /\ \E o \in ReadOutcomes(self, addr, buf) :
        th' = [th EXCEPT ![t] =
                 CopyReturned(CopyCalled(t, self, addr, buf, o), errno[t])]
    /\ UNCHANGED <<alive, mem, errno, held>>

\* the caller takes the result; a resolved handle is kept for later calls
Finish(t) ==
    /\ th[t].pc = "done"
    /\ held' = IF th[t].op = "resolve" /\ th[t].ret.kind = "Ok"
               THEN held \cup {th[t].ret.handle} ELSE held
    /\ th' = [th EXCEPT ![t] = Idle]
    /\ UNCHANGED <<alive, mem, errno>>

\* a target process exits: its task port becomes a dead name
ProcExit(p) ==
    /\ alive[p]
    /\ alive' = [alive EXCEPT ![p] = FALSE]
    /\ mem' = [mem EXCEPT ![p] = ZeroMem]
    /\ th' = [u \in Threads |-> Disturbed(th[u], TaskPortName(p), KERN_SUCCESS)]
    /\ UNCHANGED <<errno, held>>

\* between calls a thread runs other code, which may set its errno
SetErrno(t, e) ==
    /\ th[t].pc = "idle"
    /\ errno[t] # e
    /\ errno' = [errno EXCEPT ![t] = e]
    /\ UNCHANGED <<alive, mem, held, th>>

\* One caller thread: every pid, handle, address and buffer.
Next ==
    \/ \E pid \in Pids \cup {NoSuchPid} : Resolve(1, pid)
    \/ \E self \in held, addr \in Addrs, buf \in SrcBufs :
            Put(1, self, addr, buf)
    \/ \E self \in held, addr \in Addrs, buf \in DstBufs :
            Copy(1, self, addr, buf)
    \/ Finish(1)
    \/ \E p \in Pids : ProcExit(p)
    \/ \E e \in Errnos : SetErrno(1, e)

Spec == Init /\ [][Next]_vars

----------------------------------------------------------------------------
(* The operations of concurrent callers: a call is two steps, the kernel   *)
(* call and the rest of the wrapper, and other threads run in between      *)

ResolveCall(t, pid) ==
    /\ th[t].pc = "idle"
    /\ \E o \in TaskForPidOutcomes(pid) :
        th' = [th EXCEPT ![t] = ResolveCalled(pid, o)]
    /\ UNCHANGED <<alive, mem, errno, held>>

ResolveReturn(t) ==
    /\ th[t].pc = "called" /\ th[t].op = "resolve"
    /\ th' = [th EXCEPT ![t] = ResolveReturned(th[t], errno[t])]
    /\ UNCHANGED <<alive, mem, errno, held>>

PutCall(t, self, addr, buf) ==
    /\ th[t].pc = "idle"
    /\ \E o \in WriteOutcomes(self, addr, buf) :
        /\ th' = [u \in Threads |->
                    IF u = t THEN PutCalled(self, addr, buf, o)
                    ELSE Disturbed(th[u], self, o.result)]
        /\ mem' = o.mem
    /\ UNCHANGED <<alive, errno, held>>

PutReturn(t) ==
    /\ th[t].pc = "called" /\ th[t].op = "put"
    /\ th' = [th EXCEPT ![t] = PutReturned(th[t], errno[t])]
    /\ UNCHANGED <<alive, mem, errno, held>>

CopyCall(t, self, addr, buf) ==
    /\ th[t].pc = "idle" \/ FollowsPut(t, self, addr, buf)
    /\ \E o \in ReadOutcomes(self, addr, buf) :
        th' = [th EXCEPT ![t] = CopyCalled(t, self, addr, buf, o)]
    /\ UNCHANGED <<alive, mem, errno, held>>

CopyReturn(t) ==
    /\ th[t].pc = "called" /\ th[t].op = "copy"
    /\ th' = [th EXCEPT ![t] = CopyReturned(th[t], errno[t])]
    /\ UNCHANGED <<alive, mem, errno, held>>

\* Several caller threads: the low addresses, the short buffers.
NextConc ==
    \/ \E t \in Threads, pid \in Pids \cup {NoSuchPid} : ResolveCall(t, pid)
    \/ \E t \in Threads : ResolveReturn(t)
    \/ \E t \in Threads, self \in held, addr \in 0 .. MaxAddr,
          buf \in { b \in SrcBufs : Len(b) <= MaxLen } :
            PutCall(t, self, addr, buf)
    \/ \E t \in Threads : PutReturn(t)
    \/ \E t \in Threads, self \in held, addr \in 0 .. MaxAddr,
          buf \in { b \in DstBufs : Len(b) <= MaxLen } :
            CopyCall(t, self, addr, buf)
    \/ \E t \in Threads : CopyReturn(t)
    \/ \E t \in Threads : Finish(t)
    \/ \E p \in Pids : ProcExit(p)
    \/ \E t \in Threads, e \in Errnos : SetErrno(t, e)

SpecConc == Init /\ [][NextConc]_vars

----------------------------------------------------------------------------
(* Properties *)

Done(t, op) == th[t].pc = "done" /\ th[t].op = op

\* C1: when the whole range [addr, addr + len) of a live target is readable,
\* copy_address leaves in the buffer exactly the bytes the target held
\* there, and returns Ok if and only if the length the kernel reported
\* equals the buffer length.
C1_CopyFillsExactly ==
    \A t \in Threads :
        (Done(t, "copy") /\ th[t].inrange) =>
            /\ th[t].buf = th[t].want
            /\ th[t].ret.kind = "Ok" <=> th[t].read_len = Len(th[t].arg)

\* C1 witness: a read of a readable range has returned Ok and changed the
\* buffer's stale contents
C1_Witness ==
    \E t \in Threads :
        /\ Done(t, "copy") /\ th[t].inrange /\ th[t].ret.kind = "Ok"
        /\ Len(th[t].arg) > 1 /\ th[t].buf # th[t].arg
        /\ \E i, j \in 1 .. Len(th[t].buf) : th[t].buf[i] # th[t].buf[j]

\* C2: a put_address to a writable range, followed at once by a
\* copy_address at the same address with a buffer of the same length, the
\* target untouched in between: both return Ok and the bytes read are the
\* bytes written.
C2_RoundTrip ==
    \A t \in Threads :
        (Done(t, "copy") /\ th[t].rtrip) =>
            /\ th[t].putok
            /\ th[t].ret.kind = "Ok"
            /\ th[t].buf = th[t].wrote

\* C3: when the kernel does not report success, try_into_process_handle
\* returns an error and no handle; the callers never hold the null port nor
\* any name the kernel did not grant, and every read or write is issued on
\* a handle from a successful resolution.
C3_FailedResolveNoHandle ==
    /\ \A t \in Threads :
        (Done(t, "resolve") /\ th[t].result # KERN_SUCCESS) =>
            th[t].ret.kind = "Os" /\ th[t].ret.handle = MACH_PORT_NULL
    /\ MACH_PORT_NULL \notin held
    /\ \A h \in held : \E p \in Pids : h = TaskPortName(p)
    /\ \A t \in Threads : th[t].op \in {"copy", "put"} => th[t].self \in held

\* C3 witness: resolving a pid that names no live process has failed
C3_Witness ==
    \E t \in Threads :
        /\ Done(t, "resolve") /\ ~th[t].valid
        /\ th[t].result # KERN_SUCCESS /\ th[t].ret.kind = "Os"

\* C4: when vm_read_overwrite reports success and a length other than the
\* buffer length, copy_address returns the BrokenPipe error carrying the
\* expected and the actual length, which is neither Ok nor an OS-status
\* error; Ok is returned only for a buffer filled whole.
C4_MismatchIsDistinctError ==
    \A t \in Threads :
        Done(t, "copy") =>
            /\ (th[t].result = KERN_SUCCESS /\ th[t].read_len # Len(th[t].arg))
                 => /\ th[t].ret = BrokenPipe(Len(th[t].arg), th[t].read_len)
                    /\ th[t].ret.kind \notin {"Ok", "Os"}
            /\ th[t].ret.kind = "Ok"
                 => /\ th[t].read_len = Len(th[t].arg)
                    /\ th[t].inrange /\ th[t].buf = th[t].want

\* C4 witness: the kernel reported success and fewer bytes than asked,
\* part of the buffer was overwritten, and the call returned BrokenPipe
C4_Witness ==
    \E t \in Threads :
        /\ Done(t, "copy") /\ th[t].result = KERN_SUCCESS
        /\ 0 < th[t].read_len /\ th[t].read_len < Len(th[t].arg)
        /\ th[t].buf # th[t].arg
        /\ th[t].ret.kind = "BrokenPipe"

\* C5: when the read or write kernel call returns a non-success status,
\* the error copy_address or put_address returns carries that status.
C5_ErrorCarriesStatus ==
    \A t \in Threads :
        ((Done(t, "copy") \/ Done(t, "put")) /\ th[t].result # KERN_SUCCESS)
            => th[t].ret = OsError(th[t].result)

\* C6: put_address asks the kernel to write exactly len(buf) bytes, or
\* returns an error.
C6_PutExactCount ==
    \A t \in Threads :
        Done(t, "put") =>
            th[t].count = Len(th[t].arg) \/ th[t].ret.kind # "Ok"

\* C7, as stated: copy_address with an empty buffer returns Ok for every
\* handle and address, a stale handle included.
C7_ZeroReadSucceeds ==
    \A t \in Threads :
        (Done(t, "copy") /\ Len(th[t].arg) = 0) => th[t].ret.kind = "Ok"

\* C7, amended: copy_address with an empty buffer asks the kernel for zero
\* bytes like any other read; it returns Ok if and only if the kernel
\* reports success and a length of zero, and an OS error, not Ok, when the
\* kernel fails the call, as it does on a stale handle.
C7_ZeroReadFollowsKernel ==
    \A t \in Threads :
        (Done(t, "copy") /\ Len(th[t].arg) = 0) =>
            /\ th[t].count = 0
            /\ th[t].ret.kind = "Ok"
                 <=> (th[t].result = KERN_SUCCESS /\ th[t].read_len = 0)
            /\ th[t].result # KERN_SUCCESS => th[t].ret.kind = "Os"
            /\ ~th[t].valid => th[t].ret.kind # "Ok"

\* C7 witness: a zero-byte read on a stale handle has returned an OS error
C7_Witness ==
    \E t \in Threads :
        /\ Done(t, "copy") /\ Len(th[t].arg) = 0
        /\ th[t].self \in held /\ ~th[t].valid
        /\ th[t].ret.kind = "Os"

\* C8: the outcome of a call is determined by its arguments and the
\* target's state at that moment: two calls with the same arguments, made
\* when the target was in the same state and answered by the kernel alike,
\* return the same value, whatever preceded each.
C8_SameCallSameResult ==
    \A t, u \in Threads :
        ( /\ th[t].pc = "done" /\ th[u].pc = "done"
          /\ th[t].op \in {"copy", "put"} /\ th[t].op = th[u].op
          /\ th[t].self = th[u].self /\ th[t].addr = th[u].addr
          /\ th[t].arg = th[u].arg
          /\ th[t].valid = th[u].valid /\ th[t].inrange = th[u].inrange
          /\ th[t].want = th[u].want
          /\ th[t].result = th[u].result /\ th[t].read_len = th[u].read_len
          /\ th[t].buf = th[u].buf )
            => th[t].ret = th[u].ret

\* C9: under every interleaving of the threads' calls, what a call returns
\* is what its own kernel call and its own buffer produced: Ok, the error
\* carrying the status its kernel call returned, or the size mismatch of
\* its own lengths.
C9_OwnResult ==
    \A t \in Threads :
        /\ Done(t, "resolve") =>
            th[t].ret = IF th[t].result = KERN_SUCCESS
                        THEN OkHandle(th[t].task) ELSE OsError(errno[t])
        /\ Done(t, "put") =>
            th[t].ret = IF th[t].result = KERN_SUCCESS
                        THEN OkUnit ELSE OsError(th[t].result)
        /\ Done(t, "copy") =>
            th[t].ret = IF th[t].result # KERN_SUCCESS
                        THEN OsError(th[t].result)
                        ELSE IF th[t].read_len = Len(th[t].arg)
                             THEN OkUnit
                             ELSE BrokenPipe(Len(th[t].arg), th[t].read_len)

\* C10: put_address returns Ok if and only if mach_vm_write reports
\* success, otherwise an OS error; it reads nothing back and compares no
\* byte count, so Ok is returned also when fewer bytes than len(buf) were
\* written.
C10_PutOkIffKernelOk ==
    \A t \in Threads :
        Done(t, "put") =>
            /\ th[t].ret.kind = "Ok" <=> th[t].result = KERN_SUCCESS
            /\ th[t].ret.kind \in {"Ok", "Os"}
            /\ th[t].read_len = 0 /\ th[t].buf = th[t].arg

\* C10 witness: a put_address has returned Ok although the kernel was
\* given, and wrote, fewer bytes than the buffer holds
C10_Witness ==
    \E t \in Threads :
        /\ Done(t, "put") /\ th[t].ret.kind = "Ok"
        /\ th[t].count < Len(th[t].arg)

====
